---- MODULE Spec2Model ----
(***************************************************************************)
(* A model of the fosseeBackend dataset service:                           *)
(*   - src/datasets/analytics.py : the sanitizer _py and the analytics     *)
(*     engine analyze_equipment_json with its helpers;                     *)
(*   - src/datasets/views.py     : record normalisation, the upload        *)
(*     handler UploadCSVView.post with its pruning of the store, and       *)
(*     _ensure_charts_grid_shape.                                          *)
(*                                                                         *)
(* Numbers.  A numeric cell is a positive integer count of units, where    *)
(* One units make 1.0, or Null (None / NaN, which pandas treats alike).    *)
(* Sums and means are computed as the code computes them, in binary        *)
(* floating point: every addition and every division is rounded to         *)
(* FloatBits significant bits, ties to even (IEEE 754 with a short         *)
(* significand; binary64 has 53 bits).  Quantiles are exact and carried    *)
(* in quarter units (x4); Tukey fences in eighth units.                    *)
(***************************************************************************)
EXTENDS Integers, Sequences, FiniteSets, TLC

VARIABLES
    records,    \* engine: the table handed to analyze_equipment_json
    result,     \* engine: NotCalled, Fault, or the returned bundle
    sanIn,      \* sanitizer: the value handed to _py
    sanOut,     \* sanitizer: NotCalled or the value _py returned
    summary,    \* history: the stored summary handed to _ensure_charts_grid_shape
    shaped,     \* history: NotCalled or the payload it returned
    store,      \* upload: the Dataset table, a set of [id, uploaded_at]
    nextId,     \* upload: the next primary key of the Dataset table
    clock,      \* upload: the time source behind auto_now_add
    req,        \* upload: per caller, the request in flight
    started,    \* upload: how many upload requests have been started
    created,    \* upload: every Dataset row ever inserted (history)
    again,      \* engine: NotCalled, Fault, or the bundle of a second call
    rng,        \* engine: the seed state of numpy's global generator
    seriesIn,   \* series: the arguments handed to _series_list
    listed      \* series: NotCalled or the list it returned

vars == <<records, result, sanIn, sanOut, summary, shaped,
          store, nextId, clock, req, started, created, again, rng, seriesIn, listed>>

(***************************************************************************)
(* Bounds of the model.                                                    *)
(***************************************************************************)
MaxRows == 3
FloatBits == 4
MaxDepth == 2
MaxAbsent == 2
MaxUploads == 7
MaxSeries == 5

(***************************************************************************)
(* Generic helpers.                                                        *)
(***************************************************************************)
Null == -1

NotCalled == [kind |-> "none"]
Fault == [kind |-> "fault"]

Min2(a, b) == IF a <= b THEN a ELSE b

Range(s) == {s[i] : i \in 1..Len(s)}

RECURSIVE Pow2(_)
Pow2(n) == IF n = 0 THEN 1 ELSE 2 * Pow2(n - 1)

\* 1.0 in units: the smallest magnitude whose spacing is one unit.
One == Pow2(FloatBits - 1)

RECURSIVE SeqSum(_)
SeqSum(s) == IF s = <<>> THEN 0 ELSE s[1] + SeqSum(Tail(s))

RECURSIVE SelectSeqIdx(_, _, _)
\* the subsequence of s at the indices i (ascending) with Keep[i]
SelectSeqIdx(s, Keep, i) ==
    IF i > Len(s) THEN <<>>
    ELSE (IF Keep[i] THEN <<s[i]>> ELSE <<>>) \o SelectSeqIdx(s, Keep, i + 1)

\* Series.dropna(): the non-null values, in order
DropNa(s) == SelectSeq(s, LAMBDA x : x # Null)

RECURSIVE Insert(_, _)
\* x into the ascending sequence s
Insert(s, x) ==
    IF s = <<>> THEN <<x>>
    ELSE IF x < s[1] THEN <<x>> \o s
    ELSE <<s[1]>> \o Insert(Tail(s), x)

RECURSIVE SortAsc(_)
SortAsc(s) == IF s = <<>> THEN <<>> ELSE Insert(SortAsc(Tail(s)), s[1])

(***************************************************************************)
(* Floating point: float.__add__, float.__truediv__ as used by             *)
(* Series.mean() (the_sum / count over a sequential sum).                  *)
(***************************************************************************)
RECURSIVE Ulp(_)
\* spacing of the representable values at magnitude q >= One
Ulp(q) == IF q < 2 * One THEN 1 ELSE 2 * Ulp(q \div 2)

\* a / b rounded to the nearest representable value, ties to even
FDiv(a, b) ==
    LET q == a \div b
        u == Ulp(q)
        lo == (q \div u) * u
        twice == 2 * (a - lo * b)
    IN  IF twice < u * b THEN lo
        ELSE IF twice > u * b THEN lo + u
        ELSE IF (lo \div u) % 2 = 0 THEN lo ELSE lo + u

FAdd(a, b) == FDiv(a + b, 1)

RECURSIVE FSumFrom(_, _)
FSumFrom(acc, s) == IF s = <<>> THEN acc ELSE FSumFrom(FAdd(acc, s[1]), Tail(s))

FSum(s) == FSumFrom(0, s)

\* Series.mean(): NaN (Null) for no values, else the_sum / count
Mean(s) ==
    LET v == DropNa(s)
    IN  IF v = <<>> THEN Null ELSE FDiv(FSum(v), Len(v))

\* round(x, 0) / round(x, 2) of num/den >= 0: round half to even
RoundHalfEven(num, den) ==
    LET q == num \div den
        twice == 2 * (num - q * den)
    IN  IF twice < den THEN q
        ELSE IF twice > den THEN q + 1
        ELSE IF q % 2 = 0 THEN q ELSE q + 1

(***************************************************************************)
(* Strings.  A type name is one of a small vocabulary; str comparison      *)
(* (what groupby's sort uses) is by code point, str.lower() maps A-Z to    *)
(* a-z.                                                                    *)
(***************************************************************************)
NoneStr == "<None>"

TypeNames == {"Pump", "compressor", "Valve", "pump"}

CodePoints(s) ==
    CASE s = "Pump" -> <<80, 117, 109, 112>>
      [] s = "pump" -> <<112, 117, 109, 112>>
      [] s = "Valve" -> <<86, 97, 108, 118, 101>>
      [] s = "compressor" -> <<99, 111, 109, 112, 114, 101, 115, 115, 111, 114>>

LowerCode(c) == IF c >= 65 /\ c <= 90 THEN c + 32 ELSE c

\* str.lower(), as code points
Lower(s) == [i \in DOMAIN CodePoints(s) |-> LowerCode(CodePoints(s)[i])]

RECURSIVE SeqLess(_, _)
\* a < b for two sequences of code points (Python's str.__lt__)
SeqLess(a, b) ==
    IF b = <<>> THEN FALSE
    ELSE IF a = <<>> THEN TRUE
    ELSE IF a[1] # b[1] THEN a[1] < b[1]
    ELSE SeqLess(Tail(a), Tail(b))

StrLess(a, b) == SeqLess(CodePoints(a), CodePoints(b))

LowerLeq(a, b) == ~SeqLess(Lower(b), Lower(a))

RECURSIVE SortStrs(_)
\* the strings of S in ascending code point order
SortStrs(S) ==
    IF S = {} THEN <<>>
    ELSE LET m == CHOOSE x \in S : \A y \in S : y = x \/ StrLess(x, y)
         IN  <<m>> \o SortStrs(S \ {m})

(***************************************************************************)
(* The DataFrame: a sequence of rows [name, type, flowrate, pressure,      *)
(* temperature].                                                           *)
(***************************************************************************)
NumCols == <<"flowrate", "pressure", "temperature">>

Column(df, col) == [i \in 1..Len(df) |-> df[i][col]]

\* the keys df.groupby("type", dropna=True) iterates over, in its order
GroupKeys(df) == SortStrs({df[i].type : i \in 1..Len(df)} \ {NoneStr})

GroupRows(df, t) == SelectSeq(df, LAMBDA r : r.type = t)

(***************************************************************************)
(* Quantiles, Series.quantile with linear interpolation, in quarter units. *)
(***************************************************************************)
\* the quantile k/4 of the non-empty ascending sequence s, times 4
QuantileX4(s, k) ==
    LET pos == k * (Len(s) - 1)
        lo == (pos \div 4) + 1
        r == pos % 4
    IN  IF r = 0 THEN 4 * s[lo] ELSE 4 * s[lo] + r * (s[lo + 1] - s[lo])

FiveQuantilesX4(s) == [k \in 1..5 |-> QuantileX4(SortAsc(s), k - 1)]

(***************************************************************************)
(* _stats, _iqr_outliers, _hist_counts, _pretty_edges_labels.              *)
(***************************************************************************)
\* n * sum(x^2) - sum(x)^2 and n * sum(xy) - sum(x) * sum(y)
CoMoment(x, y) ==
    LET n == Len(x)
        sx == SeqSum(x)
        sy == SeqSum(y)
        sxy == SeqSum([i \in 1..n |-> x[i] * y[i]])
    IN  n * sxy - sx * sy

EmptyStats ==
    [count |-> 0, mean |-> Null, std |-> Null, min |-> Null, q1 |-> Null,
     median |-> Null, q3 |-> Null, max |-> Null]

\* std is carried as its square, the fraction stdSqNum / stdSqDen
Stats(df, col) ==
    LET s == DropNa(Column(df, col))
        a == SortAsc(s)
        n == Len(s)
    IN  IF s = <<>> THEN EmptyStats
        ELSE [count |-> n,
              mean |-> Mean(s),
              std |-> IF n > 1
                      THEN [stdSqNum |-> CoMoment(s, s), stdSqDen |-> n * (n - 1)]
                      ELSE [stdSqNum |-> 0, stdSqDen |-> 1],
              min |-> a[1],
              q1 |-> QuantileX4(a, 1),
              median |-> QuantileX4(a, 2),
              q3 |-> QuantileX4(a, 3),
              max |-> a[n]]

EmptyIqr ==
    [min |-> Null, q1 |-> Null, median |-> Null, q3 |-> Null, max |-> Null,
     outliers |-> <<>>]

IqrOutliers(series) ==
    LET s == DropNa(series)
        a == SortAsc(s)
        q1 == QuantileX4(a, 1)
        q3 == QuantileX4(a, 3)
        iqr == q3 - q1
        low8 == 2 * q1 - 3 * iqr
        high8 == 2 * q3 + 3 * iqr
    IN  IF s = <<>> THEN EmptyIqr
        ELSE [min |-> a[1], q1 |-> q1, median |-> QuantileX4(a, 2), q3 |-> q3,
              max |-> a[Len(a)],
              outliers |-> SelectSeq(s, LAMBDA x : 8 * x < low8 \/ 8 * x > high8)]

\* np.histogram's range, doubled: (min, max), or (min - 0.5, max + 0.5) when
\* they are equal
HistRange2(a) ==
    IF a[1] = a[Len(a)]
    THEN [first |-> 2 * a[1] - One, last |-> 2 * a[1] + One]
    ELSE [first |-> 2 * a[1], last |-> 2 * a[Len(a)]]

\* np.linspace(first, last, bins + 1): edge i (0-based) times 2 * bins
HistEdges(a, bins) ==
    LET r == HistRange2(a)
    IN  [i \in 1..bins + 1 |-> bins * r.first + (i - 1) * (r.last - r.first)]

\* the bin of x: the inner edges at or below it (the last bin is closed)
BinOf(x, edges, bins) ==
    Cardinality({i \in 2..bins : edges[i] <= 2 * bins * x}) + 1

HistCounts(series, bins) ==
    LET s == DropNa(series)
        e == HistEdges(SortAsc(s), bins)
    IN  IF s = <<>>
        THEN [edges |-> <<>>, counts |-> [b \in 1..bins |-> 0]]
        ELSE [edges |-> e,
              counts |-> [b \in 1..bins |->
                            Cardinality({i \in 1..Len(s) : BinOf(s[i], e, bins) = b})]]

\* a label "a-b" is carried as the pair of its two integers
PrettyEdgesLabels(edges, bins) ==
    [i \in 1..Len(edges) - 1 |->
        [a |-> RoundHalfEven(edges[i], 2 * bins * One),
         b |-> RoundHalfEven(edges[i + 1], 2 * bins * One)]]

(***************************************************************************)
(* _pressure_boxplot_by_type.                                              *)
(***************************************************************************)
RECURSIVE InsertByLower(_, _)
\* p into s, which is ascending by lower-cased label, after its equals:
\* sorted(..., key=lambda x: x[0].lower()) is stable
InsertByLower(s, p) ==
    IF s = <<>> THEN <<p>>
    ELSE IF SeqLess(Lower(p.label), Lower(s[1].label)) THEN <<p>> \o s
    ELSE <<s[1]>> \o InsertByLower(Tail(s), p)

\* the pairs left in the order the grouping made them
GroupingOrder(s) == s

RECURSIVE SortedByLower(_)
SortedByLower(s) ==
    IF s = <<>> THEN <<>>
    ELSE InsertByLower(SortedByLower(SubSeq(s, 1, Len(s) - 1)), s[Len(s)])

PressureBoxplotByType(df) ==
    LET keys == GroupKeys(df)
        press(t) == DropNa(Column(GroupRows(df, t), "pressure"))
        kept == SelectSeq(keys, LAMBDA t : press(t) # <<>>)
        pairs == [i \in 1..Len(kept) |->
                    [label |-> kept[i], q |-> FiveQuantilesX4(press(kept[i]))]]
        paired == SortedByLower(pairs)
    IN  [labels |-> [i \in 1..Len(paired) |-> paired[i].label],
         values |-> [i \in 1..Len(paired) |-> paired[i].q]]

(***************************************************************************)
(* _series_list and the scatter sample.                                    *)
(***************************************************************************)
\* indices at a fixed stride from 0, which stop short of the last one
StrideIdx(n, k) == [i \in 1..k |-> ((i - 1) * n) \div k]

\* np.linspace(0, n - 1, k).astype(int), 0-based: the float product
\* i * ((n - 1) / (k - 1)) truncates to the exact quotient for every n <= 30
LinspaceIdx(n, k) ==
    [i \in 1..k |-> IF k = 1 THEN 0 ELSE ((i - 1) * (n - 1)) \div (k - 1)]

\* max_points = Null stands for None
SeriesList(series, max_points) ==
    IF max_points = Null \/ Len(series) <= max_points THEN series
    ELSE [i \in 1..max_points |-> series[LinspaceIdx(Len(series), max_points)[i] + 1]]

SampleCap == 200

\* numpy.random.RandomState(42).permutation(n), 0-based, which is what
\* DataFrame.sample(n=..., random_state=42) indexes with
Perm42(n) ==
    CASE n = 1 -> <<0>>
      [] n = 2 -> <<1, 0>>
      [] n = 3 -> <<0, 1, 2>>
      [] n = 4 -> <<1, 3, 0, 2>>
      [] n = 5 -> <<1, 4, 2, 0, 3>>
      [] n = 6 -> <<0, 1, 5, 2, 4, 3>>
      [] n = 200 ->
           <<95, 15, 30, 158, 128, 115, 69, 170, 174, 45, 66, 182, 165, 78, 186,
             177, 56, 152, 82, 68, 124, 16, 148, 93, 65, 60, 84, 67, 125, 132, 9,
             18, 55, 75, 150, 104, 135, 137, 164, 76, 79, 197, 38, 24, 122, 195,
             29, 19, 143, 86, 114, 173, 5, 126, 117, 73, 140, 98, 172, 96, 169, 97,
             31, 12, 35, 119, 42, 189, 90, 136, 51, 127, 162, 41, 118, 113, 26,
             139, 100, 111, 2, 77, 46, 187, 191, 85, 161, 36, 190, 61, 22, 141,
             101, 33, 11, 194, 159, 6, 27, 120, 4, 32, 142, 145, 109, 144, 10, 62,
             112, 146, 166, 0, 198, 153, 70, 123, 64, 44, 163, 28, 40, 108, 155,
             156, 25, 23, 184, 147, 81, 39, 168, 47, 94, 154, 43, 138, 3, 105, 53,
             133, 180, 178, 185, 49, 80, 34, 7, 110, 91, 83, 176, 181, 89, 8, 13,
             59, 171, 131, 17, 72, 175, 134, 167, 183, 63, 54, 107, 50, 196, 58,
             48, 88, 21, 57, 160, 192, 129, 37, 157, 193, 1, 52, 149, 130, 151,
             103, 99, 116, 87, 74, 121, 199, 20, 188, 71, 106, 14, 92, 179, 102>>
      [] n = 201 ->
           <<95, 15, 30, 158, 128, 115, 69, 171, 175, 45, 66, 183, 165, 78, 187,
             178, 56, 152, 82, 68, 124, 16, 148, 93, 65, 60, 84, 67, 125, 132, 9,
             18, 55, 75, 150, 104, 135, 137, 164, 76, 79, 198, 38, 24, 122, 196,
             29, 19, 143, 86, 114, 174, 5, 126, 117, 73, 140, 98, 173, 96, 170, 97,
             31, 12, 35, 119, 42, 190, 90, 136, 51, 127, 162, 41, 118, 113, 26,
             139, 100, 111, 2, 77, 46, 194, 192, 85, 161, 36, 191, 61, 22, 141,
             101, 33, 11, 195, 159, 6, 27, 120, 4, 32, 142, 145, 109, 144, 10, 62,
             112, 146, 166, 0, 180, 153, 70, 123, 64, 44, 163, 28, 40, 108, 155,
             156, 25, 23, 185, 147, 81, 39, 168, 47, 94, 154, 43, 138, 3, 105, 53,
             133, 181, 199, 186, 49, 80, 34, 7, 110, 91, 83, 177, 182, 89, 8, 13,
             59, 172, 131, 17, 72, 176, 134, 167, 184, 63, 54, 107, 50, 197, 169,
             58, 48, 88, 21, 57, 160, 193, 129, 37, 157, 189, 1, 52, 149, 130, 151,
             103, 99, 116, 87, 74, 121, 200, 20, 188, 71, 106, 14, 92, 179, 102>>

CleanScatter(df) ==
    SelectSeq(df, LAMBDA r : r.flowrate # Null /\ r.pressure # Null
                             /\ r.temperature # Null)

\* numpy.random.seed(g); numpy.random.permutation(n), which a sample drawn
\* from the global generator indexes with: as numpy gives it up to n = 5,
\* and two different orders standing for it beyond
PermGlobal(g, n) ==
    CASE n = 1 -> <<0>>
      [] n = 2 -> IF g = 0 THEN <<1, 0>> ELSE <<0, 1>>
      [] n = 3 -> IF g = 0 THEN <<2, 1, 0>> ELSE <<0, 2, 1>>
      [] n = 4 -> IF g = 0 THEN <<2, 3, 1, 0>> ELSE <<3, 2, 0, 1>>
      [] n = 5 -> IF g = 0 THEN <<2, 0, 1, 3, 4>> ELSE <<2, 1, 4, 0, 3>>
      [] OTHER -> [i \in 1..n |-> IF g = 0 THEN n - i ELSE (i * 7) % n]

\* sample(n=...) without random_state: drawn from the global generator
SampleDfGlobal(clean) ==
    IF Len(clean) > 0
    THEN [i \in 1..Min2(SampleCap, Len(clean)) |->
            clean[PermGlobal(rng, Len(clean))[i] + 1]]
    ELSE clean

SampleDf(clean) ==
    IF Len(clean) > 0
    THEN [i \in 1..Min2(SampleCap, Len(clean)) |-> clean[Perm42(Len(clean))[i] + 1]]
    ELSE clean

\* round(v, 2), in hundredths
Round2(v) == RoundHalfEven(100 * v, One)

\* What DataFrame.apply(f, axis=1) returns for a frame without rows depends on
\* the pandas build: an empty Series ("series"), or a copy of the frame
\* ("frame"), which has no tolist().
ApplyEmptyResults == {"series", "frame"}

ScatterFaults(df, applyEmpty) == CleanScatter(df) = <<>> /\ applyEmpty = "frame"

ScatterPoints(df) ==
    LET sample == SampleDf(CleanScatter(df))
    IN  [i \in 1..Len(sample) |->
            [x |-> Round2(sample[i].flowrate),
             y |-> Round2(sample[i].pressure),
             t |-> Round2(sample[i].temperature)]]

(***************************************************************************)
(* DataFrame.corr(): Pearson, pairwise complete.  A correlation is carried *)
(* as num / sqrt(den2).                                                    *)
(***************************************************************************)
ColIdx(c) == CHOOSE i \in 1..3 : NumCols[i] = c

Pearson(df, a, b) ==
    LET both == SelectSeq(df, LAMBDA r : r[a] # Null /\ r[b] # Null)
        x == Column(both, a)
        y == Column(both, b)
        vx == CoMoment(x, x)
        vy == CoMoment(y, y)
    IN  IF Len(both) = 0 \/ vx = 0 \/ vy = 0
        THEN [nan |-> TRUE, num |-> 0, den2 |-> 1]
        ELSE [nan |-> FALSE, num |-> CoMoment(x, y), den2 |-> vx * vy]

\* nancorr fills one triangle and mirrors it
CorrFrame(df) ==
    [a \in Range(NumCols) |-> [b \in Range(NumCols) |->
        IF ColIdx(b) <= ColIdx(a) THEN Pearson(df, a, b) ELSE Pearson(df, b, a)]]

FloatZero == [num |-> 0, den2 |-> 1]
FloatOne == [num |-> 1, den2 |-> 1]

\* round(float(c), 4): +-1.0 and 0.0 are kept; any other value stands for
\* its rounding
Round4(c) ==
    IF c.num * c.num = c.den2
    THEN [num |-> IF c.num > 0 THEN 1 ELSE -1, den2 |-> 1]
    ELSE [num |-> c.num, den2 |-> c.den2]

Capitalize(c) ==
    CASE c = "flowrate" -> "Flowrate"
      [] c = "pressure" -> "Pressure"
      [] c = "temperature" -> "Temperature"

\* the long-form list: for i in corr.columns for j in corr.columns
CorrelationList(df) ==
    LET corr == CorrFrame(df)
    IN  [k \in 1..9 |->
            LET i == NumCols[((k - 1) \div 3) + 1]
                j == NumCols[((k - 1) % 3) + 1]
            IN  [x |-> Capitalize(i), y |-> Capitalize(j),
                 v |-> IF corr[i][j].nan THEN FloatZero ELSE Round4(corr[i][j])]]

\* corr().fillna(0.0), read with float()
Corr2(df, a, b) ==
    LET c == CorrFrame(df)[a][b]
    IN  IF c.nan THEN FloatZero ELSE [num |-> c.num, den2 |-> c.den2]

CorrelationInsights(df) ==
    [matrix |->
        [Flowrate |-> [Flowrate |-> FloatOne,
                       Pressure |-> Corr2(df, "flowrate", "pressure"),
                       Temperature |-> Corr2(df, "flowrate", "temperature")],
         Pressure |-> [Flowrate |-> Corr2(df, "pressure", "flowrate"),
                       Pressure |-> FloatOne,
                       Temperature |-> Corr2(df, "pressure", "temperature")],
         Temperature |-> [Flowrate |-> Corr2(df, "temperature", "flowrate"),
                          Pressure |-> Corr2(df, "temperature", "pressure"),
                          Temperature |-> FloatOne]]]

(***************************************************************************)
(* analyze_equipment_json.                                                 *)
(***************************************************************************)
Bins == 5
PreviewRows == 20

TypeCount(df, t) == Cardinality({i \in 1..Len(df) : df[i].type = t})

\* Series.value_counts(dropna=True) sorts by count, descending; how it orders
\* equal counts depends on the sort numpy dispatches to
ValueCountsOrders(df) ==
    LET keys == {df[i].type : i \in 1..Len(df)} \ {NoneStr}
        n == Cardinality(keys)
    IN  {o \in [1..n -> keys] :
            /\ Range(o) = keys
            /\ \A i \in 1..n - 1 : TypeCount(df, o[i]) >= TypeCount(df, o[i + 1])}

TypeDistribution(df, order) ==
    [i \in 1..Len(order) |-> [key |-> order[i], count |-> TypeCount(df, order[i])]]

\* the labels taken from temperature's edges first
HistogramTemperatureFirst(df) ==
    LET flow == HistCounts(Column(df, "flowrate"), Bins)
        temp == HistCounts(Column(df, "temperature"), Bins)
        edges_for_labels == IF temp.edges # <<>> THEN temp.edges ELSE flow.edges
    IN  [labels |-> IF edges_for_labels # <<>>
                    THEN PrettyEdgesLabels(edges_for_labels, Bins) ELSE <<>>,
         flowrate |-> flow.counts,
         temperature |-> temp.counts]

Histogram(df) ==
    LET flow == HistCounts(Column(df, "flowrate"), Bins)
        temp == HistCounts(Column(df, "temperature"), Bins)
        edges_for_labels == IF flow.edges # <<>> THEN flow.edges ELSE temp.edges
    IN  [labels |-> IF edges_for_labels # <<>>
                    THEN PrettyEdgesLabels(edges_for_labels, Bins) ELSE <<>>,
         flowrate |-> flow.counts,
         temperature |-> temp.counts]

StatisticalSummary(df) ==
    [data |-> [flowrate |-> Stats(df, "flowrate"),
               pressure |-> Stats(df, "pressure"),
               temperature |-> Stats(df, "temperature")]]

\* a dict is carried as the sequence of its items, in insertion order
Grouped(df) ==
    LET keys == GroupKeys(df)
    IN  [i \in 1..Len(keys) |->
            [key |-> keys[i],
             value |-> [flowrate |-> Stats(GroupRows(df, keys[i]), "flowrate"),
                        pressure |-> Stats(GroupRows(df, keys[i]), "pressure"),
                        temperature |-> Stats(GroupRows(df, keys[i]), "temperature")]]]

DistributionAnalysis(df) ==
    [title |-> "Flowrate", unit |-> " m3/h",
     stats |-> IqrOutliers(Column(df, "flowrate"))]

\* df[df["pressure"] > avg_p], or no rows when avg_p is NaN
CondDf(df) ==
    LET avg_p == Mean(Column(df, "pressure"))
    IN  IF avg_p # Null
        THEN SelectSeq(df, LAMBDA r : r.pressure # Null /\ r.pressure > avg_p)
        ELSE <<>>

ConditionalAnalysis(df) ==
    LET cond_df == CondDf(df)
        m(col) == IF Len(cond_df) > 0 THEN Mean(Column(cond_df, col)) ELSE Null
    IN  [conditionLabel |-> "Records with ABOVE average pressure",
         totalRecords |-> Len(cond_df),
         stats |-> [flowrate |-> m("flowrate"), pressure |-> m("pressure"),
                    temperature |-> m("temperature")]]

EquipmentPerformanceRanking(df) ==
    LET keys == GroupKeys(df)
        m(t, col) == IF Len(GroupRows(df, t)) > 0
                     THEN Mean(Column(GroupRows(df, t), col)) ELSE Null
    IN  [i \in 1..Len(keys) |->
            [key |-> keys[i],
             value |-> [flowrate |-> m(keys[i], "flowrate"),
                        pressure |-> m(keys[i], "pressure"),
                        temperature |-> m(keys[i], "temperature")]]]

\* _py on a list of floats: a list holding a single None/NaN comes back as
\* None, because pd.isna(list) is then a one-element array that is true
PyFloatList(l) ==
    IF Len(l) = 1 /\ l[1] = Null THEN [isNone |-> TRUE, list |-> <<>>]
    ELSE [isNone |-> FALSE, list |-> l]

SeriesData(df) ==
    [flowrate |-> PyFloatList(SeriesList(Column(df, "flowrate"), Null)),
     temperature |-> PyFloatList(SeriesList(Column(df, "temperature"), Null))]

Preview(df) == SubSeq(df, 1, Min2(PreviewRows, Len(df)))

\* the bundle analyze_equipment_json returns when no step raises
AnalyzeEquipmentJson(df, tdOrder) ==
    [kind |-> "bundle",
     total_count |-> Len(df),
     avg_flowrate |-> Mean(Column(df, "flowrate")),
     avg_pressure |-> Mean(Column(df, "pressure")),
     avg_temperature |-> Mean(Column(df, "temperature")),
     type_distribution |-> TypeDistribution(df, tdOrder),
     scatter_points |-> ScatterPoints(df),
     histogram |-> Histogram(df),
     boxplot |-> PressureBoxplotByType(df),
     correlation |-> CorrelationList(df),
     StatisticalSummary |-> StatisticalSummary(df),
     GroupedEquipmentAnalytics |-> Grouped(df),
     SeriesData |-> SeriesData(df),
     DistributionAnalysis |-> DistributionAnalysis(df),
     CorrelationInsights |-> CorrelationInsights(df),
     ConditionalAnalysis |-> ConditionalAnalysis(df),
     EquipmentPerformanceRanking |-> EquipmentPerformanceRanking(df),
     data |-> Preview(df)]

(***************************************************************************)
(* The engine as a state machine: a table, and one call on it.             *)
(***************************************************************************)
F1 == One
F2 == 2 * One
F3 == 3 * One
\* 1.75: a value that needs the whole significand
F175 == One + (3 * One) \div 4

Row(t, f, p, c) == [name |-> "E", type |-> t, flowrate |-> f, pressure |-> p,
                    temperature |-> c]

\* the rows a table is built from
RowDomain ==
    { Row("Pump", F1, F1, F2),
      Row("compressor", F2, F2, F3),
      Row("Valve", F3, F3, F1),
      Row("pump", F2, F1, F1),
      Row("Pump", F175, F175, F2),
      Row("Valve", Null, F2, F1),
      Row("compressor", F1, Null, Null),
      Row("Pump", Null, Null, F3),
      Row("Valve", Null, F3, Null),
      Row(NoneStr, F2, F3, F1),
      Row(NoneStr, Null, Null, Null) }

Tables == UNION {[1..n -> RowDomain] : n \in 0..MaxRows}

InitEngine ==
    /\ records \in Tables /\ result = NotCalled
    /\ sanIn = NotCalled /\ sanOut = NotCalled
    /\ summary = NotCalled /\ shaped = NotCalled
    /\ store = {} /\ nextId = 1 /\ clock = 0
    /\ req = <<>> /\ started = 0 /\ created = {} /\ again = NotCalled /\ rng = 0
    /\ seriesIn = NotCalled /\ listed = NotCalled

\* analyze_equipment_json(records) returns a bundle
AnalyzeReturns ==
    /\ result = NotCalled
    /\ \E applyEmpty \in ApplyEmptyResults, tdOrder \in ValueCountsOrders(records) :
        /\ ~ScatterFaults(records, applyEmpty)
        /\ result' = AnalyzeEquipmentJson(records, tdOrder)
    /\ UNCHANGED <<records, sanIn, sanOut, summary, shaped, store, nextId, clock,
                   req, started, created, again, rng, seriesIn, listed>>

\* analyze_equipment_json(records) raises
AnalyzeRaises ==
    /\ result = NotCalled
    /\ \E applyEmpty \in ApplyEmptyResults :
        /\ ScatterFaults(records, applyEmpty)
        /\ result' = Fault
    /\ UNCHANGED <<records, sanIn, sanOut, summary, shaped, store, nextId, clock,
                   req, started, created, again, rng, seriesIn, listed>>

NextEngine == AnalyzeReturns \/ AnalyzeRaises

SpecEngine == InitEngine /\ [][NextEngine]_vars

(***************************************************************************)
(* Properties of the engine.                                               *)
(***************************************************************************)
IsBundle == result.kind = "bundle"

NonNull(col) == DropNa(Column(records, col))

KeysOf(items) == [i \in 1..Len(items) |-> items[i].key]

\* ascending, case-insensitively
LowerSorted(keys) == \A i \in 1..Len(keys) - 1 : LowerLeq(keys[i], keys[i + 1])

NonDecreasing(q) == \A i \in 1..Len(q) - 1 : q[i] <= q[i + 1]

C6_GroupKeysCaseInsensitive ==
    IsBundle =>
        /\ LowerSorted(KeysOf(result.GroupedEquipmentAnalytics))
        /\ LowerSorted(KeysOf(result.EquipmentPerformanceRanking))
        /\ LowerSorted(KeysOf(result.type_distribution))

\* the non-null pressures of the rows of type t
PressuresOf(t) ==
    {records[i].pressure : i \in {j \in 1..Len(records) : records[j].type = t}}
        \ {Null}

SetMin(S) == CHOOSE x \in S : \A y \in S : x <= y
SetMax(S) == CHOOSE x \in S : \A y \in S : x >= y

BoxplotGood(b) ==
    /\ Len(b.labels) = Len(b.values)
    /\ Range(b.labels) = {t \in TypeNames : PressuresOf(t) # {}}
    /\ Cardinality(Range(b.labels)) = Len(b.labels)
    /\ LowerSorted(b.labels)
    /\ \A i \in 1..Len(b.values) :
          /\ Len(b.values[i]) = 5
          /\ NonDecreasing(b.values[i])
          /\ b.values[i][1] = 4 * SetMin(PressuresOf(b.labels[i]))
          /\ b.values[i][5] = 4 * SetMax(PressuresOf(b.labels[i]))

\* C7: the by-type boxplot has one entry per non-null type with a non-null
\* pressure (a type whose pressures are all null is skipped), labels and values
\* of equal length, each value the five quantiles in non-decreasing order from
\* the type's minimum to its maximum, entries ascending by label,
\* case-insensitively; the bundle's boxplot key is that boxplot.
C7_BoxplotByType ==
    /\ BoxplotGood(PressureBoxplotByType(records))
    /\ IsBundle => BoxplotGood(result.boxplot)

\* a bundle whose boxplot has several labels, whose code point order is not
\* their case-insensitive order, and which skips a type without pressures
C7_Witness ==
    /\ IsBundle
    /\ Len(result.boxplot.labels) >= 2
    /\ \E i \in 1..Len(result.boxplot.labels) - 1 :
          StrLess(result.boxplot.labels[i + 1], result.boxplot.labels[i])
    /\ \E i \in 1..Len(records) :
          /\ records[i].type # NoneStr
          /\ PressuresOf(records[i].type) = {}

IsOne(v) == v.num > 0 /\ v.num * v.num = v.den2

SelfPairs(corr) == {k \in 1..Len(corr) : corr[k].x = corr[k].y}

\* C8: self-correlation is 1.0 in both outputs for every field with a non-null
\* value, a constant field included; the long-form list has the 9 ordered
\* pairs; the matrix is symmetric.
C8_SelfCorrelationOne ==
    IsBundle =>
        LET corr == result.correlation
            m == result.CorrelationInsights.matrix
            names == {"Flowrate", "Pressure", "Temperature"}
        IN  /\ Len(corr) = 9
            /\ {<<corr[k].x, corr[k].y>> : k \in 1..Len(corr)} = names \X names
            /\ \A a \in names, b \in names : m[a][b] = m[b][a]
            /\ \A c \in Range(NumCols) :
                  NonNull(c) # <<>> =>
                      /\ IsOne(m[Capitalize(c)][Capitalize(c)])
                      /\ \A k \in SelfPairs(corr) :
                            corr[k].x = Capitalize(c) => IsOne(corr[k].v)

\* the labels made from a field's histogram edges
LabelsFrom(col) ==
    PrettyEdgesLabels(HistEdges(SortAsc(NonNull(col)), Bins), Bins)

HistogramCounts(h) ==
    /\ Len(h.flowrate) = 5
    /\ Len(h.temperature) = 5
    /\ SeqSum(h.flowrate) = Len(NonNull("flowrate"))
    /\ SeqSum(h.temperature) = Len(NonNull("temperature"))

HistogramLabelSource(h) ==
    /\ NonNull("flowrate") # <<>> => h.labels = LabelsFrom("flowrate")
    /\ NonNull("flowrate") = <<>> /\ NonNull("temperature") # <<>> =>
          h.labels = LabelsFrom("temperature")

\* C9 as claimed: in every bundle histogram.labels, histogram.flowrate and
\* histogram.temperature have length 5; the labels come from flowrate's edges
\* when flowrate has a non-null value, else from temperature's; a field
\* without values has 5 zero counts.
C9_LabelsAlwaysFive ==
    IsBundle =>
        /\ Len(result.histogram.labels) = 5
        /\ HistogramCounts(result.histogram)
        /\ HistogramLabelSource(result.histogram)

\* C9 as amended: the labels have length 5 when flowrate or temperature has
\* a non-null value and are the empty list when neither has; the rest as
\* claimed.
C9_LabelsFiveOrEmpty ==
    IsBundle =>
        /\ Len(result.histogram.labels) =
              IF NonNull("flowrate") = <<>> /\ NonNull("temperature") = <<>>
              THEN 0 ELSE 5
        /\ HistogramCounts(result.histogram)
        /\ HistogramLabelSource(result.histogram)
        /\ \A i \in 1..Len(result.histogram.labels) :
              result.histogram.labels[i].a <= result.histogram.labels[i].b

\* a bundle whose labels come from temperature, flowrate having no value
C9_Witness ==
    /\ IsBundle
    /\ NonNull("flowrate") = <<>>
    /\ NonNull("temperature") # <<>>
    /\ Len(result.histogram.labels) = 5
    /\ result.histogram.flowrate = <<0, 0, 0, 0, 0>>

\* the rows whose pressure is strictly above the mean of the non-null
\* pressures, the mean taken exactly
AboveMean ==
    LET p == NonNull("pressure")
    IN  {i \in 1..Len(records) :
            /\ records[i].pressure # Null
            /\ Len(p) * records[i].pressure > SeqSum(p)}

\* C10: ConditionalAnalysis covers exactly the rows whose pressure is non-null
\* and strictly above the mean of the non-null pressures: totalRecords counts
\* them (0 when all pressures are equal or all are null), each mean is the
\* mean over those rows, and all three means are null when there are none.
C10_AboveAverageRows ==
    IsBundle =>
        LET ca == result.ConditionalAnalysis
            rows == SelectSeqIdx(records, [i \in 1..Len(records) |-> i \in AboveMean], 1)
        IN  /\ ca.totalRecords = Cardinality(AboveMean)
            /\ \A c \in Range(NumCols) : ca.stats[c] = Mean(Column(rows, c))
            /\ AboveMean = {} => \A c \in Range(NumCols) : ca.stats[c] = Null

(***************************************************************************)
(* The sanitizer _py / _json_safe.  A Python value is [k, n, items]: k its *)
(* kind, n the number (or the code of the text) of a scalar, items the     *)
(* elements of a list or the items of a dict in insertion order, each      *)
(* [key, value] (a list element has the key "").                           *)
(***************************************************************************)
Scalar(k, n) == [k |-> k, n |-> n, items |-> <<>>]

List(vs) ==
    [k |-> "list", n |-> 0,
     items |-> [i \in 1..Len(vs) |-> [key |-> "", value |-> vs[i]]]]

Dict(kvs) ==
    [k |-> "dict", n |-> 0,
     items |-> [i \in 1..Len(kvs) |-> [key |-> kvs[i][1], value |-> kvs[i][2]]]]

PyNone == Scalar("null", 0)

\* float("nan"), float("inf"), float("-inf"), and numpy's
NonFiniteKinds == {"nan", "inf", "ninf", "npnan", "npinf"}

Atoms ==
    { PyNone, Scalar("nan", 0), Scalar("inf", 0), Scalar("ninf", 0),
      Scalar("float", 1), Scalar("int", 2), Scalar("bool", 1), Scalar("str", 7),
      Scalar("npint", 3), Scalar("npfloat", 4), Scalar("npnan", 0),
      Scalar("npinf", 0), List(<<>>), Dict(<<>>) }

\* the scalars that stand beside a nested value in a container
Siblings == {Scalar("nan", 0), Scalar("inf", 0), Scalar("float", 1)}

\* the containers that hold v
Wraps(v) ==
    {List(<<v>>), Dict(<< <<"a", v>> >>)}
    \cup {List(<<v, a>>) : a \in Siblings}
    \cup {List(<<a, v>>) : a \in Siblings}
    \cup {Dict(<< <<"a", a>>, <<"b", v>> >>) : a \in Siblings}

RECURSIVE PyValues(_)
\* the values nested to depth d at most
PyValues(d) ==
    IF d = 0 THEN Atoms
    ELSE PyValues(d - 1) \cup UNION {Wraps(v) : v \in PyValues(d - 1)}

\* pandas' checknull on one object: None and NaN are missing, infinity is not
CheckNull(x) == x.k \in {"null", "nan", "npnan"}

RECURSIVE SoleElementNull(_)
\* np.asarray(l, dtype=object) has exactly one element, and it is missing
SoleElementNull(l) ==
    /\ Len(l.items) = 1
    /\ IF l.items[1].value.k = "list"
       THEN SoleElementNull(l.items[1].value)
       ELSE CheckNull(l.items[1].value)

\* `if pd.isna(v):` takes the branch.  For a list pd.isna gives an array:
\* its truth value is that of its only element, false when it is empty, and
\* an exception (swallowed) when it has several.
IsNaTruthy(v) ==
    IF v.k = "list" THEN SoleElementNull(v) ELSE CheckNull(v)

PyScalarKeepsInf(v) ==
    CASE v.k = "npint" -> Scalar("int", v.n)
      [] v.k = "npfloat" -> Scalar("float", v.n)
      [] v.k = "npinf" -> PyNone
      [] OTHER -> v

\* the branches of _py for a value that is neither missing nor a container
PyScalar(v) ==
    CASE v.k = "npint" -> Scalar("int", v.n)
      [] v.k = "npfloat" -> Scalar("float", v.n)
      [] v.k = "npinf" -> PyNone
      [] v.k \in {"inf", "ninf"} -> PyNone
      [] OTHER -> v

RECURSIVE Py(_)
Py(v) ==
    IF v.k = "null" THEN PyNone
    ELSE IF IsNaTruthy(v) THEN PyNone
    ELSE IF v.k \in {"list", "dict"}
         THEN [k |-> v.k, n |-> 0,
               items |-> [i \in 1..Len(v.items) |->
                            [key |-> v.items[i].key, value |-> Py(v.items[i].value)]]]
    ELSE PyScalar(v)

JsonSafe(obj) == Py(obj)

InitSanitize ==
    /\ sanIn \in PyValues(MaxDepth) /\ sanOut = NotCalled
    /\ records = <<>> /\ result = NotCalled
    /\ summary = NotCalled /\ shaped = NotCalled
    /\ store = {} /\ nextId = 1 /\ clock = 0
    /\ req = <<>> /\ started = 0 /\ created = {} /\ again = NotCalled /\ rng = 0
    /\ seriesIn = NotCalled /\ listed = NotCalled

Sanitize ==
    /\ sanOut = NotCalled
    /\ sanOut' = [kind |-> "value", value |-> JsonSafe(sanIn)]
    /\ UNCHANGED <<records, result, sanIn, summary, shaped, store, nextId, clock,
                   req, started, created, again, rng, seriesIn, listed>>

NextSanitize == Sanitize

SpecSanitize == InitSanitize /\ [][NextSanitize]_vars

RECURSIVE NoNonFinite(_)
NoNonFinite(v) ==
    /\ v.k \notin NonFiniteKinds
    /\ \A i \in 1..Len(v.items) : NoNonFinite(v.items[i].value)

IsNullScalar(v) == v.k = "null" \/ v.k \in NonFiniteKinds

RECURSIVE HoldsNullScalar(_)
HoldsNullScalar(v) ==
    \/ IsNullScalar(v)
    \/ \E i \in 1..Len(v.items) : HoldsNullScalar(v.items[i].value)

RECURSIVE NullsShown(_, _)
\* every null or non-finite scalar of x is null in y, at its place or as the
\* whole of a container around it; no key is dropped; no text is invented
NullsShown(x, y) ==
    IF IsNullScalar(x) THEN y.k = "null"
    ELSE IF y.k = "null" THEN HoldsNullScalar(x)
    ELSE IF x.k \in {"list", "dict"}
         THEN /\ y.k = x.k
              /\ Len(y.items) = Len(x.items)
              /\ \A i \in 1..Len(x.items) :
                    /\ y.items[i].key = x.items[i].key
                    /\ NullsShown(x.items[i].value, y.items[i].value)
    ELSE y.k = "str" <=> x.k = "str"

\* C2: the sanitized value holds no NaN and no Infinity at any depth, and every
\* null, NaN or infinite scalar of the input is null in it: not a string, and
\* not under a dropped key.
C2_NoNonFiniteOutput ==
    sanOut # NotCalled =>
        /\ NoNonFinite(sanOut.value)
        /\ NullsShown(sanIn, sanOut.value)

\* a sanitized mapping that kept the key of a list holding an infinity, which
\* is null in the output
C2_Witness ==
    /\ sanOut # NotCalled
    /\ sanIn.k = "dict"
    /\ \E i \in 1..Len(sanIn.items) :
          LET x == sanIn.items[i].value
              y == sanOut.value.items[i].value
          IN  /\ x.k = "list" /\ y.k = "list"
              /\ \E j \in 1..Len(x.items) :
                    x.items[j].value.k = "inf" /\ y.items[j].value = PyNone

(***************************************************************************)
(* _ensure_charts_grid_shape.  A summary is a mapping from keys to values  *)
(* [v, n]: v = "stored" for whatever an earlier format stored under the    *)
(* key, v = "int" with n for a count, or v = the text of a default.        *)
(***************************************************************************)
BundleKeys ==
    {"total_count", "avg_flowrate", "avg_pressure", "avg_temperature",
     "type_distribution", "scatter_points", "histogram", "boxplot", "correlation",
     "StatisticalSummary", "GroupedEquipmentAnalytics", "SeriesData",
     "DistributionAnalysis", "CorrelationInsights", "ConditionalAnalysis",
     "EquipmentPerformanceRanking", "data"}

Stored == [v |-> "stored", n |-> 0]
Count(n) == [v |-> "int", n |-> n]
Literal(text) == [v |-> text, n |-> 0]

\* the keys out.setdefault is called with, and what it is called with
ShapeDefaults ==
    [avg_flowrate |-> Literal("None"),
     avg_pressure |-> Literal("None"),
     avg_temperature |-> Literal("None"),
     type_distribution |-> Literal("{}"),
     scatter_points |-> Literal("[]"),
     histogram |-> Literal("{labels: [], flowrate: [], temperature: []}"),
     boxplot |-> Literal("{labels: [], values: []}"),
     correlation |-> Literal("[]"),
     StatisticalSummary |-> Literal("{data: {}}"),
     GroupedEquipmentAnalytics |-> Literal("{}"),
     DistributionAnalysis |-> Literal("{title, unit, stats: all None, outliers: []}"),
     CorrelationInsights |-> Literal("{matrix: {}}"),
     ConditionalAnalysis |-> Literal("{conditionLabel, totalRecords: 0, stats: all None}"),
     EquipmentPerformanceRanking |-> Literal("{}"),
     data |-> Literal("[]")]

\* summary.isDict is isinstance(summary, dict); summary.map the mapping
EnsureChartsGridShape(dataset_id, s, fallback_total) ==
    LET m == IF s.isDict THEN s.map ELSE <<>>
        has(k) == k \in DOMAIN m
        \* int(out.get("total_count") or fallback_total)
        total == IF has("total_count") /\ m["total_count"].n # 0
                 THEN m["total_count"].n ELSE fallback_total
    IN  [k \in {"id"} \cup DOMAIN m \cup {"total_count"} \cup DOMAIN ShapeDefaults |->
            IF k = "total_count" THEN Count(total)
            ELSE IF has(k) THEN m[k]
            ELSE IF k = "id" THEN Count(dataset_id)
            ELSE ShapeDefaults[k]]

\* the stored summaries: not a mapping, or a mapping with at most MaxAbsent
\* bundle keys present, or with at most MaxAbsent bundle keys absent
KeySets ==
    {K \in SUBSET BundleKeys :
        Cardinality(K) <= MaxAbsent \/ Cardinality(BundleKeys \ K) <= MaxAbsent}

Summaries ==
    {[isDict |-> FALSE, map |-> <<>>]}
    \cup {[isDict |-> TRUE,
           map |-> [k \in K |-> IF k = "total_count" THEN Count(tc) ELSE Stored]] :
             K \in KeySets, tc \in {0, 3}}

InitShape ==
    /\ summary \in [s : Summaries, fallback_total : {0, 2}] /\ shaped = NotCalled
    /\ records = <<>> /\ result = NotCalled
    /\ sanIn = NotCalled /\ sanOut = NotCalled
    /\ store = {} /\ nextId = 1 /\ clock = 0
    /\ req = <<>> /\ started = 0 /\ created = {} /\ again = NotCalled /\ rng = 0
    /\ seriesIn = NotCalled /\ listed = NotCalled

EnsureShape ==
    /\ shaped = NotCalled
    /\ shaped' = [kind |-> "payload",
                  payload |-> EnsureChartsGridShape(1, summary.s, summary.fallback_total)]
    /\ UNCHANGED <<records, result, sanIn, sanOut, summary, store, nextId, clock,
                   req, started, created, again, rng, seriesIn, listed>>

NextShape == EnsureShape

SpecShape == InitShape /\ [][NextShape]_vars

\* C3: for every stored summary the payload holds each of the 17 bundle keys:
\* a key that was present keeps its value, a key that was absent is filled.
C3_AllKeysFilled ==
    shaped # NotCalled =>
        LET m == IF summary.s.isDict THEN summary.s.map ELSE <<>>
        IN  \A k \in BundleKeys :
              /\ k \in DOMAIN shaped.payload
              /\ k \in DOMAIN m => shaped.payload[k] = m[k]

(***************************************************************************)
(* views.py: _to_float, _get_first_available, _normalize_equipment_record. *)
(* A raw JSON value is [t, s]: t = "none", "str" (s its text) or "num"     *)
(* (s its decimal text).  A float is carried as its repr, None as "None".  *)
(***************************************************************************)
RawNone == [t |-> "none", s |-> ""]
RawStr(s) == [t |-> "str", s |-> s]
RawNum(s) == [t |-> "num", s |-> s]

\* str.strip() on the texts of the model
Strip(s) ==
    CASE s = " " -> ""
      [] s = " P1 " -> "P1"
      [] s = " 2 " -> "2"
      [] OTHER -> s

\* float(text): the repr of the float, or "None" where float() raises
ParseFloat(s) ==
    CASE Strip(s) = "1.5" -> "1.5"
      [] Strip(s) = "2" -> "2.0"
      [] Strip(s) = "nan" -> "nan"
      [] OTHER -> "None"

ToFloat(x) ==
    IF x.t = "none" THEN "None"
    ELSE IF x.t = "str" /\ Strip(x.s) = "" THEN "None"
    ELSE ParseFloat(x.s)

RECURSIVE GetFirstAvailable(_, _)
\* the value under the first key of keys that row has, None when it has none
GetFirstAvailable(row, keys) ==
    IF keys = <<>> THEN RawNone
    ELSE IF keys[1] \in DOMAIN row THEN row[keys[1]]
    ELSE GetFirstAvailable(row, Tail(keys))

NameKeys == <<"Equipment Name", "name", "equipment_name", "EquipmentName", "equipmentName">>
TypeKeys == <<"Type", "type", "equipment_type", "equipmentType">>
FlowKeys == <<"Flowrate", "flowrate", "Flow Rate", "flow_rate", "flowRate">>
PressKeys == <<"Pressure", "pressure">>
TempKeys == <<"Temperature", "temperature">>

\* "" if v is None else str(v).strip()
StrStrip(v) == IF v.t = "none" THEN "" ELSE Strip(v.s)

\* for a row that is a dict
NormalizeEquipmentRecord(row) ==
    [name |-> StrStrip(GetFirstAvailable(row, NameKeys)),
     type |-> StrStrip(GetFirstAvailable(row, TypeKeys)),
     flowrate |-> ToFloat(GetFirstAvailable(row, FlowKeys)),
     pressure |-> ToFloat(GetFirstAvailable(row, PressKeys)),
     temperature |-> ToFloat(GetFirstAvailable(row, TempKeys))]

(***************************************************************************)
(* UploadCSVView.post.                                                     *)
(***************************************************************************)
KeepLatest == 5

\* the fields of rec that are None, or a string that is empty when stripped
Missing(rec) ==
    {f \in {"name", "type"} : Strip(rec[f]) = ""}
    \cup {f \in Range(NumCols) : rec[f] = "None"}

\* the indices the loop appends an error for
RowErrors(data) ==
    {i \in 1..Len(data) :
        \/ ~data[i].isDict
        \/ Missing(NormalizeEquipmentRecord(data[i].map)) # {}}

Normalized(data) ==
    LET ok == SelectSeq(data, LAMBDA r :
                  r.isDict /\ Missing(NormalizeEquipmentRecord(r.map)) = {})
    IN  [i \in 1..Len(ok) |-> NormalizeEquipmentRecord(ok[i].map)]

\* a validation that skips the rows in error and rejects only when none is left
RejectsWhenNoRowUsable(p) == ~p.isList \/ p.rows = <<>> \/ Normalized(p.rows) = <<>>

\* the 400 responses: not a list, an empty list, or a row with an error
RejectsAnyError(p) == ~p.isList \/ p.rows = <<>> \/ RowErrors(p.rows) # {}

\* pd.DataFrame(records) and pd.to_numeric: a float as a cell of the engine
Cell(f) ==
    CASE f = "1.5" -> One + One \div 2
      [] f = "2.0" -> 2 * One
      [] OTHER -> Null

FrameOf(normalized) ==
    [i \in 1..Len(normalized) |->
        [name |-> normalized[i].name, type |-> normalized[i].type,
         flowrate |-> Cell(normalized[i].flowrate),
         pressure |-> Cell(normalized[i].pressure),
         temperature |-> Cell(normalized[i].temperature)]]

\* the ordering reversed: order_by("uploaded_at")
PksOfOldest(db) ==
    {d.id : d \in {x \in db :
        Cardinality({y \in db : y.uploaded_at < x.uploaded_at}) < 5}}

\* Dataset.objects.order_by("-uploaded_at").values_list("pk")[:5]
PksToKeep(db) ==
    {d.id : d \in {x \in db :
        Cardinality({y \in db : y.uploaded_at > x.uploaded_at}) < KeepLatest}}

Callers == {"a", "b"}

NoPayload == [isList |-> FALSE, rows |-> <<>>]
IdleReq == [pc |-> "idle", payload |-> NoPayload, status |-> 0, id |-> 0, keep |-> {}]

DictRow(m) == [isDict |-> TRUE, map |-> m]
NotADict == [isDict |-> FALSE, map |-> <<>>]

GoodRow ==
    DictRow([x \in {"Equipment Name", "Type", "Flowrate", "Pressure", "Temperature"} |->
        CASE x = "Equipment Name" -> RawStr("P1")
          [] x = "Type" -> RawStr("Pump")
          [] x = "Flowrate" -> RawNum("2")
          [] x = "Pressure" -> RawStr("1.5")
          [] x = "Temperature" -> RawStr(" 2 ")])

AliasRow ==
    DictRow([x \in {"name", "type", "flow_rate", "pressure", "temperature"} |->
        CASE x = "name" -> RawStr(" P1 ")
          [] x = "type" -> RawStr("Valve")
          [] x = "flow_rate" -> RawStr("1.5")
          [] x = "pressure" -> RawNum("2")
          [] x = "temperature" -> RawNum("1.5")])

\* float("nan") is a float: the row passes validation with no usable number
NanRow ==
    DictRow([x \in DOMAIN GoodRow.map |->
        IF x \in {"Equipment Name", "Type"} THEN GoodRow.map[x] ELSE RawStr("nan")])

With(row, key, v) == DictRow([x \in DOMAIN row.map \cup {key} |-> IF x = key THEN v ELSE row.map[x]])
Without(row, key) == DictRow([x \in DOMAIN row.map \ {key} |-> row.map[x]])

BadRows ==
    { NotADict,
      With(GoodRow, "Equipment Name", RawStr(" ")),
      With(AliasRow, "Equipment Name", RawNone),
      Without(GoodRow, "Type"),
      With(GoodRow, "Flowrate", RawNone),
      With(AliasRow, "pressure", RawStr("abc")),
      With(GoodRow, "Temperature", RawStr("")) }

Payloads ==
    {NoPayload, [isList |-> TRUE, rows |-> <<>>]}
    \cup {[isList |-> TRUE, rows |-> r] :
            r \in {<<GoodRow>>, <<GoodRow, AliasRow>>, <<NanRow>>, <<AliasRow, NanRow>>}}
    \cup {[isList |-> TRUE, rows |-> <<GoodRow, b>>] : b \in BadRows}
    \cup {[isList |-> TRUE, rows |-> r] :
            r \in {<<NotADict>>, <<Without(GoodRow, "Type"), AliasRow>>}}

InitUpload ==
    /\ store = {} /\ nextId = 1 /\ clock = 0 /\ created = {} /\ again = NotCalled /\ rng = 0
    /\ seriesIn = NotCalled /\ listed = NotCalled
    /\ req = [c \in Callers |-> IdleReq] /\ started = 0
    /\ records = <<>> /\ result = NotCalled
    /\ sanIn = NotCalled /\ sanOut = NotCalled
    /\ summary = NotCalled /\ shaped = NotCalled

EngineIdle == UNCHANGED <<records, result, sanIn, sanOut, summary, shaped, again, rng, seriesIn, listed>>

\* the request is parsed and validated, and a 400 is returned
PostRejects(c, p) ==
    /\ req[c].pc = "idle" /\ started < MaxUploads
    /\ RejectsAnyError(p)
    /\ req' = [req EXCEPT ![c] = [IdleReq EXCEPT !.pc = "responded", !.payload = p,
                                                 !.status = 400]]
    /\ started' = started + 1
    /\ UNCHANGED <<store, nextId, clock, created>> /\ EngineIdle

\* validation passes and analyze_equipment_json raises: a 500 is returned
PostAnalysisFails(c, p) ==
    /\ req[c].pc = "idle" /\ started < MaxUploads
    /\ ~RejectsAnyError(p)
    /\ \E applyEmpty \in ApplyEmptyResults :
          ScatterFaults(FrameOf(Normalized(p.rows)), applyEmpty)
    /\ req' = [req EXCEPT ![c] = [IdleReq EXCEPT !.pc = "responded", !.payload = p,
                                                 !.status = 500]]
    /\ started' = started + 1
    /\ UNCHANGED <<store, nextId, clock, created>> /\ EngineIdle

\* validation passes and the summary is computed
PostAnalyzes(c, p) ==
    /\ req[c].pc = "idle" /\ started < MaxUploads
    /\ ~RejectsAnyError(p)
    /\ \E applyEmpty \in ApplyEmptyResults :
          ~ScatterFaults(FrameOf(Normalized(p.rows)), applyEmpty)
    /\ req' = [req EXCEPT ![c] = [IdleReq EXCEPT !.pc = "create", !.payload = p]]
    /\ started' = started + 1
    /\ UNCHANGED <<store, nextId, clock, created>> /\ EngineIdle

\* Dataset.objects.create(...): auto_now_add stamps the row
CreateDataset(c) ==
    /\ req[c].pc = "create"
    /\ LET d == [id |-> nextId, uploaded_at |-> clock + 1]
       IN  /\ store' = store \cup {d}
           /\ created' = created \cup {d}
    /\ nextId' = nextId + 1
    /\ clock' = clock + 1
    /\ req' = [req EXCEPT ![c].pc = "keep", ![c].id = nextId]
    /\ UNCHANGED started /\ EngineIdle

\* pks_to_keep = list(...)
ReadKeep(c) ==
    /\ req[c].pc = "keep"
    /\ req' = [req EXCEPT ![c].pc = "delete", ![c].keep = PksToKeep(store)]
    /\ UNCHANGED <<store, nextId, clock, started, created>> /\ EngineIdle

\* Dataset.objects.exclude(pk__in=pks_to_keep).delete(), then the 201
DeleteOthers(c) ==
    /\ req[c].pc = "delete"
    /\ store' = {d \in store : d.id \in req[c].keep}
    /\ req' = [req EXCEPT ![c].pc = "responded", ![c].status = 201]
    /\ UNCHANGED <<nextId, clock, started, created>> /\ EngineIdle

\* the caller has its response and may send the next request
Return(c) ==
    /\ req[c].pc = "responded"
    /\ req' = [req EXCEPT ![c] = IdleReq]
    /\ UNCHANGED <<store, nextId, clock, started, created>> /\ EngineIdle

Step(c) ==
    \/ \E p \in Payloads : PostRejects(c, p)
    \/ \E p \in Payloads : PostAnalysisFails(c, p)
    \/ \E p \in Payloads : PostAnalyzes(c, p)
    \/ CreateDataset(c)
    \/ ReadKeep(c)
    \/ DeleteOthers(c)
    \/ Return(c)

Next == \E c \in Callers : Step(c)

Spec == InitUpload /\ [][Next]_vars

\* one request at a time: a request is taken only when no other is in flight
NextSeq ==
    \E c \in Callers :
        /\ \A o \in Callers \ {c} : req[o].pc \in {"idle", "responded"}
        /\ Step(c)

SpecSeq == InitUpload /\ [][NextSeq]_vars

(***************************************************************************)
(* Properties of the upload endpoint.                                      *)
(***************************************************************************)
Quiescent == \A c \in Callers : req[c].pc \in {"idle", "responded"}

MostRecent(n) ==
    {d \in created : Cardinality({y \in created : y.uploaded_at > d.uploaded_at}) < n}

Parseable(v) == v.t = "num" \/ (v.t = "str" /\ Strip(v.s) \in {"1.5", "2", "nan"})
NonBlank(v) == v.t # "none" /\ Strip(v.s) # ""
RowValid(r) ==
    /\ r.isDict
    /\ NonBlank(GetFirstAvailable(r.map, NameKeys))
    /\ NonBlank(GetFirstAvailable(r.map, TypeKeys))
    /\ \A keys \in {FlowKeys, PressKeys, TempKeys} :
          Parseable(GetFirstAvailable(r.map, keys))
PayloadValid(p) ==
    p.isList /\ p.rows # <<>> /\ \A i \in 1..Len(p.rows) : RowValid(p.rows[i])

C5_RequestStep(c) ==
    (req'[c] # req[c] /\ req'[c].pc # "idle") =>
        /\ ~PayloadValid(req'[c].payload) =>
              req'[c].status = 400 /\ req'[c].pc = "responded"
        /\ req'[c].pc = "responded" => req'[c].status \in {201, 400, 500}
        /\ req'[c].status \in {400, 500} =>
              /\ store' = store /\ created' = created
              /\ req'[c].id = 0 /\ req[c].pc = "idle"
        /\ req'[c].status = 201 => req'[c].id # 0 /\ PayloadValid(req'[c].payload)

\* C5: a payload that is not a non-empty list of valid rows gets the 400, an
\* analysis fault gets the 500, and the request that gets either inserts no
\* dataset and deletes none; only a request whose every row is valid gets the
\* 201 with the id of the dataset it inserted.
C5_AllOrNothing == [][\A c \in Callers : C5_RequestStep(c)]_vars

C5_Witness ==
    /\ store # {}
    /\ \E c \in Callers :
          /\ req[c].pc = "responded" /\ req[c].status = 400
          /\ \E i, j \in 1..Len(req[c].payload.rows) :
                RowValid(req[c].payload.rows[i]) /\ ~RowValid(req[c].payload.rows[j])
    /\ \E c \in Callers : req[c].pc = "responded" /\ req[c].status = 500

(***************************************************************************)
(* Two calls of analyze_equipment_json on one table, with other code       *)
(* reseeding numpy's global generator in between.  Of each returned bundle *)
(* the state keeps scatter_points, the one key computed from the sample.   *)
(***************************************************************************)
GlobalSeeds == {0, 1}

\* the rows the small tables of the repeated call are built from
ScatterRows ==
    { Row("Pump", F1, F1, F2),
      Row("compressor", F2, F2, F3),
      Row("Valve", F3, F3, F1),
      Row("Valve", Null, F2, F1),
      Row("Pump", F2, Null, Null) }

ScatterTables == UNION {[1..n -> ScatterRows] : n \in 0..MaxRows}

\* n rows with flowrate 1.0, 2.0, ..., every 50th without a pressure
LongTable(n) ==
    [i \in 1..n |->
        Row(IF i % 2 = 0 THEN "Pump" ELSE "Valve", i * One,
            IF i % 50 = 0 THEN Null ELSE F2, F1)]

\* 200 and 201 rows with all three numbers
LongTables == {LongTable(204), LongTable(205)}

\* the bundle cut down to its scatter_points
ScatterOf(df) == [kind |-> "bundle", scatter_points |-> ScatterPoints(df)]

InitScatter ==
    /\ records \in ScatterTables \cup LongTables
    /\ result = NotCalled /\ again = NotCalled
    /\ rng \in GlobalSeeds
    /\ seriesIn = NotCalled /\ listed = NotCalled
    /\ sanIn = NotCalled /\ sanOut = NotCalled
    /\ summary = NotCalled /\ shaped = NotCalled
    /\ store = {} /\ nextId = 1 /\ clock = 0
    /\ req = <<>> /\ started = 0 /\ created = {}

ScatterIdle ==
    UNCHANGED <<records, sanIn, sanOut, summary, shaped, store, nextId, clock,
                req, started, created, seriesIn, listed>>

\* the first call returns
FirstReturns ==
    /\ result = NotCalled
    /\ \E applyEmpty \in ApplyEmptyResults :
        /\ ~ScatterFaults(records, applyEmpty)
        /\ result' = ScatterOf(records)
    /\ UNCHANGED <<again, rng, seriesIn, listed>> /\ ScatterIdle

\* the first call raises
FirstRaises ==
    /\ result = NotCalled
    /\ \E applyEmpty \in ApplyEmptyResults :
        /\ ScatterFaults(records, applyEmpty)
        /\ result' = Fault
    /\ UNCHANGED <<again, rng, seriesIn, listed>> /\ ScatterIdle

\* other code of the process calls numpy.random.seed
Reseed ==
    /\ \E g \in GlobalSeeds \ {rng} : rng' = g
    /\ UNCHANGED <<result, again>> /\ ScatterIdle

\* the second call on the same table returns
AgainReturns ==
    /\ result # NotCalled /\ again = NotCalled
    /\ \E applyEmpty \in ApplyEmptyResults :
        /\ ~ScatterFaults(records, applyEmpty)
        /\ again' = ScatterOf(records)
    /\ UNCHANGED <<result, rng>> /\ ScatterIdle

\* the second call raises
AgainRaises ==
    /\ result # NotCalled /\ again = NotCalled
    /\ \E applyEmpty \in ApplyEmptyResults :
        /\ ScatterFaults(records, applyEmpty)
        /\ again' = Fault
    /\ UNCHANGED <<result, rng>> /\ ScatterIdle

NextScatter == FirstReturns \/ FirstRaises \/ Reseed \/ AgainReturns \/ AgainRaises

SpecScatter == InitScatter /\ [][NextScatter]_vars

\* the rows with flowrate, pressure and temperature all present
Complete ==
    {i \in 1..Len(records) :
        /\ records[i].flowrate # Null
        /\ records[i].pressure # Null
        /\ records[i].temperature # Null}

PointOf(r) ==
    [x |-> Round2(r.flowrate), y |-> Round2(r.pressure), t |-> Round2(r.temperature)]

\* every point is a complete row, and no row is drawn more often than it occurs
DrawnWithoutReplacement(points) ==
    \A k \in 1..Len(points) :
        Cardinality({j \in 1..Len(points) : points[j] = points[k]})
            <= Cardinality({i \in Complete : PointOf(records[i]) = points[k]})

\* C11: two calls on the same table give the same scatter_points in the same
\* order, whatever happened to the global generator in between; the points are
\* rows with all three numbers, each at most once, all of them when there are
\* at most 200 and exactly 200 when there are more.
C11_ScatterDeterministic ==
    /\ IsBundle =>
          /\ DrawnWithoutReplacement(result.scatter_points)
          /\ Len(result.scatter_points) =
                IF Cardinality(Complete) > 200 THEN 200 ELSE Cardinality(Complete)
    /\ IsBundle /\ again # NotCalled /\ again # Fault =>
          again.scatter_points = result.scatter_points

\* both calls returned for a table with more than 200 complete rows, and the
\* 200 points are not in table order
C11_Witness ==
    /\ IsBundle /\ again # NotCalled /\ again # Fault
    /\ Cardinality(Complete) > 200
    /\ Len(again.scatter_points) = 200
    /\ \E k \in 1..199 : again.scatter_points[k].x > again.scatter_points[k + 1].x

\* C12: the sanitizer turns every sequence, the empty one and the ones of
\* length 1 holding a null or a NaN included, into a sequence of the same
\* length whose i-th element is the sanitized i-th element.
C12_SequenceKept ==
    (sanOut # NotCalled /\ sanIn.k = "list") =>
        /\ sanOut.value.k = "list"
        /\ Len(sanOut.value.items) = Len(sanIn.items)
        /\ \A i \in 1..Len(sanIn.items) :
              sanOut.value.items[i].value = Py(sanIn.items[i].value)

(***************************************************************************)
(* _series_list called with a series and max_points.                       *)
(***************************************************************************)
\* the series of up to MaxSeries values, NaN (Null) among them
SeriesDomain == UNION {[1..n -> {Null, F1, F2}] : n \in 0..MaxSeries}

InitSeries ==
    /\ seriesIn \in [s : SeriesDomain, max_points : {Null} \cup (1..MaxSeries)]
    /\ listed = NotCalled
    /\ records = <<>> /\ result = NotCalled /\ again = NotCalled /\ rng = 0
    /\ sanIn = NotCalled /\ sanOut = NotCalled
    /\ summary = NotCalled /\ shaped = NotCalled
    /\ store = {} /\ nextId = 1 /\ clock = 0
    /\ req = <<>> /\ started = 0 /\ created = {}

SeriesListCall ==
    /\ listed = NotCalled
    /\ listed' = [kind |-> "value",
                  value |-> SeriesList(seriesIn.s, seriesIn.max_points)]
    /\ UNCHANGED <<records, result, sanIn, sanOut, summary, shaped, store, nextId,
                   clock, req, started, created, again, rng, seriesIn>>

NextSeries == SeriesListCall

SpecSeries == InitSeries /\ [][NextSeries]_vars

\* out is taken from s at non-decreasing positions, its first point is the
\* first value of s and its last point the last value of s
TakenFirstToLast(s, out) ==
    /\ out[1] = s[1] /\ out[Len(out)] = s[Len(s)]
    /\ \E idx \in [1..Len(out) -> 1..Len(s)] :
          /\ \A i \in 1..Len(out) - 1 : idx[i] <= idx[i + 1]
          /\ \A i \in 1..Len(out) : out[i] = s[idx[i]]

Downsampled == seriesIn.max_points # Null /\ seriesIn.max_points < Len(seriesIn.s)

\* C13 as claimed: for 1 <= N < L the list has exactly N points, taken at
\* non-decreasing indices, the first being the first original value and the
\* last the last original value; without N, or for L <= N, the list is the
\* series with its nulls in place.
C13_FirstAndLastForEveryN ==
    listed # NotCalled =>
        IF Downsampled
        THEN /\ Len(listed.value) = seriesIn.max_points
             /\ TakenFirstToLast(seriesIn.s, listed.value)
        ELSE listed.value = seriesIn.s

\* C13 as amended: the same for 2 <= N < L; for N = 1 < L the list is the
\* first original value alone.
C13_FirstAndLastFromTwo ==
    listed # NotCalled =>
        IF Downsampled /\ seriesIn.max_points >= 2
        THEN /\ Len(listed.value) = seriesIn.max_points
             /\ TakenFirstToLast(seriesIn.s, listed.value)
        ELSE IF Downsampled
        THEN listed.value = <<seriesIn.s[1]>>
        ELSE listed.value = seriesIn.s

\* three points taken from five values, a null among those taken
C13_Witness ==
    /\ listed # NotCalled
    /\ Len(seriesIn.s) = 5 /\ seriesIn.max_points = 3
    /\ listed.value = <<seriesIn.s[1], seriesIn.s[3], seriesIn.s[5]>>
    /\ seriesIn.s[3] = Null /\ seriesIn.s[1] # seriesIn.s[5] /\ seriesIn.s[2] # Null

\* the step in which caller c prunes and answers 201
Responds(c) == req[c].pc = "delete" /\ req'[c].pc = "responded" /\ req'[c].status = 201

\* C14: with the requests of several callers interleaved, the dataset a
\* request created is in the store at the moment the request answers 201 with
\* its id, and the request's own delete does not remove it.
C14_OwnDatasetKept ==
    [][\A c \in Callers :
          Responds(c) =>
              /\ \E d \in store' : d.id = req'[c].id
              /\ \A d \in store : d.id = req[c].id => d \in store']_vars

====
